---- MODULE Spec2Model ----
(***************************************************************************)
(* A model of gpustack/config/config.py: the Config settings aggregate,    *)
(* its construction (Config.__init__ with the pydantic "after" validator   *)
(* check_all), first-run provisioning of the token and jwt_secret_key      *)
(* files, and the parsing of the resources block by get_gpu_devices.       *)
(*                                                                         *)
(* Conventions.  A Python str on which the code works character by         *)
(* character (paths, URLs, secrets, file contents) is a sequence of        *)
(* one-character strings.  An Optional value is a set: None is {} and a    *)
(* present value v is {v}.  A dict is a function whose domain is the set   *)
(* of keys present.                                                        *)
(***************************************************************************)
EXTENDS Integers, Sequences, FiniteSets, TLC

VARIABLES
    os_name,       \* os.name of the interpreter
    environ,       \* os.environ, restricted to APPDATA
    files,         \* the filesystem: absolute path of a regular file -> Optional content
    dirs,          \* the filesystem: the set of directories that exist
    vendor_types,  \* the vendor -> device type mapping behind device_type_from_vendor
    values,        \* the keyword arguments of the last Config(**values)
    outcome,       \* how the last Config(**values) ended: error raised, aggregate, file I/O done
    resources,     \* self.resources of the aggregate get_gpu_devices was last called on
    gpu_devices,   \* what that call of get_gpu_devices returned or raised
    first_secrets, \* history: per data_dir, the secrets generated by the first provisioning load
    pc,            \* racing loaders: the position of each process inside prepare_*
    local,         \* racing loaders: each process's local token / key and resolved fields
    handle         \* racing loaders: the file each process holds open for writing

vars == <<os_name, environ, files, dirs, vendor_types, values, outcome,
          resources, gpu_devices, first_secrets, pc, local, handle>>

(***************************************************************************)
(* Optional values and Python strings                                      *)
(***************************************************************************)
None == {}

Some(v) == {v}

Get(o) == CHOOSE v \in o : TRUE

\* Python truthiness of an Optional[str]: None and "" are falsy.
Truthy(o) == o # None /\ Get(o) # <<>>

IsSpace(c) == c \in {" ", "\n", "\t"}

RECURSIVE lstrip(_)
lstrip(s) == IF s # <<>> /\ IsSpace(Head(s)) THEN lstrip(Tail(s)) ELSE s

RECURSIVE rstrip(_)
rstrip(s) ==
    IF s # <<>> /\ IsSpace(s[Len(s)]) THEN rstrip(SubSeq(s, 1, Len(s) - 1)) ELSE s

\* str.strip()
strip(s) == rstrip(lstrip(s))

\* str.rstrip("/")
RECURSIVE rstrip_slash(_)
rstrip_slash(s) ==
    IF s # <<>> /\ s[Len(s)] = "/" THEN rstrip_slash(SubSeq(s, 1, Len(s) - 1)) ELSE s

\* str.startswith(prefix)
startswith(s, prefix) ==
    Len(s) >= Len(prefix) /\ SubSeq(s, 1, Len(prefix)) = prefix

(***************************************************************************)
(* The resources block and get_gpu_devices                                 *)
(***************************************************************************)
VendorEnum == {"Apple", "NVIDIA", "Moore Threads", "Huawei", "AMD", "Hygon"}

DeviceTypeEnum == {"cuda", "musa", "npu", "mps", "rocm"}

\* The mappings device_type_from_vendor may implement: the five vendor/type
\* pairs are fixed, and Hygon either has no type or shares rocm.
VendorTypeMaps ==
    { [v \in VendorEnum |->
          CASE v = "Apple" -> Some("mps")
            [] v = "NVIDIA" -> Some("cuda")
            [] v = "Moore Threads" -> Some("musa")
            [] v = "Huawei" -> Some("npu")
            [] v = "AMD" -> Some("rocm")
            [] OTHER -> h] : h \in {None, Some("rocm")} }

\* device_type_from_vendor(vendor): a lookup, None for what it does not map.
device_type_from_vendor(vendor) ==
    IF vendor # None /\ Get(vendor) \in DOMAIN vendor_types
    THEN vendor_types[Get(vendor)]
    ELSE None

\* dict.get(key) and dict.get(key, default) on a dict of Optional values.
DictGet(d, key) == IF key \in DOMAIN d THEN d[key] ELSE None

DictGetDefault(d, key, default) == IF key \in DOMAIN d THEN d[key] ELSE default

EmptyDict == [k \in {} |-> None]

NoError == "ok"

\* gd.get("type") or device_type_from_vendor(vendor)
EntryType(gd) ==
    IF gd.type # None /\ Get(gd.type) # ""
    THEN gd.type
    ELSE device_type_from_vendor(gd.vendor)

\* Mutant of EntryError: the device type is checked before the memory block.
EntryErrorTypeFirst(gd) ==
    CASE gd.name = None \/ Get(gd.name) = "" -> "GPU device name is required"
      [] gd.index = None -> "GPU device index is required"
      [] gd.vendor = None \/ Get(gd.vendor) \notin VendorEnum ->
            "Unsupported GPU device vendor"
      [] EntryType(gd) = None \/ Get(EntryType(gd)) \notin DeviceTypeEnum ->
            "Unsupported GPU type"
      [] gd.memory = None \/ DOMAIN Get(gd.memory) = {} ->
            "GPU device memory is required"
      [] DictGet(Get(gd.memory), "total") = None ->
            "GPU device memory total is required"
      [] OTHER -> NoError

\* Mutant of EntryError: falsy checks on index and memory total (0 reads as missing).
EntryErrorFalsyZero(gd) ==
    CASE gd.name = None \/ Get(gd.name) = "" -> "GPU device name is required"
      [] gd.index = None \/ Get(gd.index) = 0 -> "GPU device index is required"
      [] gd.vendor = None \/ Get(gd.vendor) \notin VendorEnum ->
            "Unsupported GPU device vendor"
      [] gd.memory = None \/ DOMAIN Get(gd.memory) = {} ->
            "GPU device memory is required"
      [] EntryType(gd) = None \/ Get(EntryType(gd)) \notin DeviceTypeEnum ->
            "Unsupported GPU type"
      [] DictGet(Get(gd.memory), "total") \in {None, Some(0)} ->
            "GPU device memory total is required"
      [] OTHER -> NoError

\* One pass of the loop body (lines 169-197): the error the entry raises, or NoError.
EntryError(gd) ==
    CASE gd.name = None \/ Get(gd.name) = "" -> "GPU device name is required"
      [] gd.index = None -> "GPU device index is required"
      [] gd.vendor = None \/ Get(gd.vendor) \notin VendorEnum ->
            "Unsupported GPU device vendor"
      [] gd.memory = None \/ DOMAIN Get(gd.memory) = {} ->
            "GPU device memory is required"
      [] EntryType(gd) = None \/ Get(EntryType(gd)) \notin DeviceTypeEnum ->
            "Unsupported GPU type"
      [] DictGet(Get(gd.memory), "total") = None ->
            "GPU device memory total is required"
      [] OTHER -> NoError

\* GPUDeviceInfo(name=, index=, vendor=, memory=MemoryInfo(total=, is_unified_memory=), type=)
GPUDeviceInfo(gd) ==
    [name |-> Get(gd.name),
     index |-> Get(gd.index),
     vendor |-> Get(gd.vendor),
     memory |-> [total |-> Get(DictGet(Get(gd.memory), "total")),
                 is_unified_memory |->
                     DictGetDefault(Get(gd.memory), "is_unified_memory", Some(FALSE))],
     type |-> Get(EntryType(gd))]

\* The for loop of get_gpu_devices over the entries from position i on, appending
\* to the list built so far; the first entry that raises ends the call.
RECURSIVE DeviceLoop(_, _, _)
DeviceLoop(entries, i, acc) ==
    IF i > Len(entries)
    THEN [error |-> NoError, value |-> Some(acc)]
    ELSE IF EntryError(entries[i]) # NoError
         THEN [error |-> EntryError(entries[i]), value |-> None]
         ELSE DeviceLoop(entries, i + 1, Append(acc, GPUDeviceInfo(entries[i])))

\* Config.get_gpu_devices on self.resources = res: an Optional dict whose
\* "gpu_devices" key, when present, holds the list of entries.
get_gpu_devices(res) ==
    IF res = None \/ DOMAIN Get(res) = {}
    THEN [error |-> NoError, value |-> None]
    ELSE IF DictGet(Get(res), "gpu_devices") = None
            \/ Get(DictGet(Get(res), "gpu_devices")) = <<>>
         THEN [error |-> NoError, value |-> None]
         ELSE DeviceLoop(Get(DictGet(Get(res), "gpu_devices")), 1, <<>>)

(***************************************************************************)
(* os.path on the two platforms get_data_dir knows                         *)
(***************************************************************************)
Sep(os) == IF os = "nt" THEN "\\" ELSE "/"

Seps(os) == IF os = "nt" THEN {"\\", "/"} ELSE {"/"}

\* The working directory relative paths are resolved against.
Cwd(os) == IF os = "nt" THEN <<"C", ":", "\\", "w">> ELSE <<"/", "w">>

\* ntpath.splitdrive, the part after a drive letter.
NoDrive(os, p) ==
    IF os = "nt" /\ Len(p) >= 2 /\ p[2] = ":" THEN SubSeq(p, 3, Len(p)) ELSE p

\* os.path.isabs
isabs(os, p) == NoDrive(os, p) # <<>> /\ Head(NoDrive(os, p)) \in Seps(os)

\* os.path.join(a, b) of two components
join(os, a, b) ==
    IF isabs(os, b) THEN b
    ELSE IF a = <<>> \/ a[Len(a)] \in Seps(os) \/ (os = "nt" /\ a[Len(a)] = ":")
         THEN a \o b
         ELSE a \o <<Sep(os)>> \o b

\* The separators of p made Sep(os), a run of them collapsed to one.
RECURSIVE squeeze(_, _)
squeeze(os, p) ==
    IF p = <<>> THEN p
    ELSE IF Head(p) \in Seps(os)
         THEN IF Len(p) >= 2 /\ p[2] \in Seps(os)
              THEN squeeze(os, Tail(p))
              ELSE <<Sep(os)>> \o squeeze(os, Tail(p))
         ELSE <<Head(p)>> \o squeeze(os, Tail(p))

\* os.path.normpath, for paths without "." and ".." components.
normpath(os, p) ==
    LET q == IF \E i \in 1..Len(p) :
                    /\ p[i] \in Seps(os)
                    /\ p[i] # Sep(os) \/ (i < Len(p) /\ p[i + 1] \in Seps(os))
             THEN squeeze(os, p) ELSE p
    IN  IF q = <<>> THEN <<".">>
        ELSE IF Len(NoDrive(os, q)) > 1 /\ q[Len(q)] = Sep(os)
             THEN SubSeq(q, 1, Len(q) - 1)
             ELSE q

\* os.path.abspath
abspath(os, p) == normpath(os, IF isabs(os, p) THEN p ELSE join(os, Cwd(os), p))

(***************************************************************************)
(* The Config aggregate                                                    *)
(***************************************************************************)
app_name == <<"g", "p", "u", "s", "t", "a", "c", "k">>

token_name == <<"t", "o", "k", "e", "n">>

jwt_secret_key_name == <<"j", "w", "t", "_", "s", "e", "c", "r", "e", "t", "_", "k", "e", "y">>

OllamaLibraryBaseUrl == <<"h", "t", "t", "p", "s", ":", "/", "/", "r", "e", "g", "i", "s", "t", "r", "y", ".", "o", "l", "l", "a", "m", "a", ".", "a", "i">>

\* The field defaults of the class body (lines 58-92), for the fields modelled.
Defaults ==
    [data_dir |-> None, cache_dir |-> None, token |-> None,
     database_url |-> None, jwt_secret_key |-> None, system_reserved |-> None,
     ssl_keyfile |-> None, ssl_certfile |-> None,
     ollama_library_base_url |-> Some(OllamaLibraryBaseUrl),
     server_url |-> None, log_dir |-> None, resources |-> None, bin_dir |-> None]

\* validators.url: a scheme of http or https, then a host that starts with
\* neither a separator nor white space, and no white space anywhere.
IsUrl(s) ==
    /\ \E scheme \in {<<"h", "t", "t", "p", ":", "/", "/">>, <<"h", "t", "t", "p", "s", ":", "/", "/">>} :
          /\ startswith(s, scheme)
          /\ Len(s) > Len(scheme)
          /\ s[Len(scheme) + 1] \notin {"/", ":", "."}
    /\ \A i \in 1..Len(s) : ~IsSpace(s[i])

\* The state threaded through one construction: the error raised so far, the
\* aggregate being filled, the filesystem, and the file operations performed.
Started(v, fs, ds) ==
    [error |-> NoError, cfg |-> v, files |-> fs, dirs |-> ds, io |-> <<>>]

Raise(st, msg) == [st EXCEPT !.error = msg]

\* Config._is_server
_is_server(cfg) == cfg.server_url = None

TlsPairError == "Both ssl_keyfile and ssl_certfile must be provided, or neither."

\* Mutant of TlsMismatch: presence is tested with "is not None".
TlsMismatchNotNone(cfg) ==
    \/ cfg.ssl_keyfile # None /\ cfg.ssl_certfile = None
    \/ cfg.ssl_certfile # None /\ cfg.ssl_keyfile = None

\* The first check of check_all (lines 124-129).
TlsMismatch(cfg) ==
    \/ Truthy(cfg.ssl_keyfile) /\ ~Truthy(cfg.ssl_certfile)
    \/ Truthy(cfg.ssl_certfile) /\ ~Truthy(cfg.ssl_keyfile)

\* Config.check_all, the pydantic "after" validator: it runs inside
\* super().__init__(**values), before the body of __init__.
check_all(st) ==
    LET cfg == st.cfg
        su == IF Truthy(cfg.server_url)
              THEN Some(rstrip_slash(Get(cfg.server_url))) ELSE cfg.server_url
        ou == IF Truthy(cfg.ollama_library_base_url)
              THEN Some(rstrip_slash(Get(cfg.ollama_library_base_url)))
              ELSE cfg.ollama_library_base_url
        parsed == get_gpu_devices(cfg.resources)
    IN  IF TlsMismatch(cfg) THEN Raise(st, TlsPairError)
        ELSE IF Truthy(cfg.server_url) /\ ~IsUrl(Get(su))
        THEN Raise([st EXCEPT !.cfg.server_url = su], "Invalid server URL.")
        ELSE IF Truthy(cfg.ollama_library_base_url) /\ ~IsUrl(Get(ou))
        THEN Raise([st EXCEPT !.cfg.server_url = su,
                              !.cfg.ollama_library_base_url = ou],
                   "Invalid Ollama library base URL.")
        ELSE IF parsed.error # NoError
        THEN Raise([st EXCEPT !.cfg.server_url = su,
                              !.cfg.ollama_library_base_url = ou], parsed.error)
        ELSE [st EXCEPT !.cfg.server_url = su, !.cfg.ollama_library_base_url = ou]

\* Config.get_data_dir: [error, value]
get_data_dir ==
    IF os_name = "nt"
    THEN IF "APPDATA" \in DOMAIN environ
         THEN [error |-> NoError,
               value |-> abspath(os_name, join(os_name, environ["APPDATA"], app_name))]
         ELSE [error |-> "KeyError: APPDATA", value |-> <<>>]
    ELSE IF os_name = "posix"
         THEN [error |-> NoError, value |-> abspath(os_name, <<"/", "v", "a", "r", "/", "l", "i", "b", "/">> \o app_name)]
         ELSE [error |-> "Unsupported OS", value |-> <<>>]

\* Lines 98-108 of __init__: data_dir, then cache_dir, bin_dir and log_dir.
resolve_dirs(st) ==
    IF st.error # NoError THEN st
    ELSE IF st.cfg.data_dir = None /\ get_data_dir.error # NoError
    THEN Raise(st, get_data_dir.error)
    ELSE LET dd == IF st.cfg.data_dir = None THEN get_data_dir.value
                   ELSE Get(st.cfg.data_dir)
             sub(field, name) == IF field = None THEN Some(join(os_name, dd, name))
                                 ELSE field
         IN  [st EXCEPT !.cfg.data_dir = Some(dd),
                        !.cfg.cache_dir = sub(@, <<"c", "a", "c", "h", "e">>),
                        !.cfg.bin_dir = sub(@, <<"b", "i", "n">>),
                        !.cfg.log_dir = sub(@, <<"l", "o", "g">>)]

WorkerTokenError == "Token is required when running as a worker"

\* Mutant of check_worker_token: the check is dropped, a worker provisions like a server.
check_worker_token_dropped(st) == st

\* Lines 110-111 of __init__.
check_worker_token(st) ==
    IF st.error # NoError THEN st
    ELSE IF ~_is_server(st.cfg) /\ ~Truthy(st.cfg.token)
    THEN Raise(st, WorkerTokenError)
    ELSE st

(***************************************************************************)
(* Secret provisioning                                                     *)
(***************************************************************************)
TokenBytes == 16

KeyBytes == 32

\* The hexadecimal digits the random generator is let draw from; every
\* character of one draw is the same digit.
HexDraws == {"a", "b"}

\* secrets.token_hex(nbytes): the strings it may return, 2 * nbytes digits each.
token_hex(nbytes) == { [i \in 1..(2 * nbytes) |-> c] : c \in HexDraws }

\* os.path.exists(path), path resolved against the working directory.
exists(fs, path) == abspath(os_name, path) \in DOMAIN fs

\* with open(real, "w") as file: file.write(content), real the resolved path.
write_file(fs, real, content) ==
    [q \in DOMAIN fs \cup {real} |-> IF q = real THEN content ELSE fs[q]]

\* with open(real, "r") as file: file.read()
read_file(fs, real) == fs[real]

\* Mutant of provision: a value is generated and written on every load.
provision_regenerate(st, real_file, real_dir, drawn, content) ==
    IF Get(st.cfg.data_dir) = <<>>
    THEN [error |-> "FileNotFoundError: makedirs", value |-> <<>>,
          files |-> st.files, dirs |-> st.dirs, io |-> st.io]
    ELSE [error |-> NoError, value |-> drawn,
          files |-> write_file(st.files, real_file, content),
          dirs |-> st.dirs \cup {real_dir},
          io |-> st.io \o <<<<"makedirs", real_dir>>, <<"write", real_file>>>>]

\* The outcomes of "read the secret file if it exists, else generate and write":
\* real_file and real_dir are the resolved secret path and data_dir, content is
\* what is written for the drawn value.
provision(st, real_file, real_dir, drawn, content) ==
    IF real_file \in DOMAIN st.files
    THEN [error |-> NoError, value |-> strip(read_file(st.files, real_file)),
          files |-> st.files, dirs |-> st.dirs,
          io |-> st.io \o <<<<"exists", real_file>>, <<"read", real_file>>>>]
    ELSE IF Get(st.cfg.data_dir) = <<>>
    \* os.makedirs("") raises FileNotFoundError
    THEN [error |-> "FileNotFoundError: makedirs", value |-> <<>>,
          files |-> st.files, dirs |-> st.dirs,
          io |-> Append(st.io, <<"exists", real_file>>)]
    ELSE [error |-> NoError, value |-> drawn,
          files |-> write_file(st.files, real_file, content),
          dirs |-> st.dirs \cup {real_dir},
          io |-> st.io \o <<<<"exists", real_file>>, <<"makedirs", real_dir>>,
                            <<"write", real_file>>>>]

\* Config.prepare_token; drawn is what secrets.token_hex(16) returns if called.
prepare_token(st, drawn) ==
    IF st.error # NoError \/ st.cfg.token # None THEN st
    ELSE Get({ [st EXCEPT !.error = r.error,
                          !.cfg.token = IF r.error = NoError THEN Some(r.value) ELSE @,
                          !.files = r.files, !.dirs = r.dirs, !.io = r.io] :
               r \in { provision(st,
                                 abspath(os_name, join(os_name, Get(st.cfg.data_dir),
                                                       token_name)),
                                 abspath(os_name, Get(st.cfg.data_dir)),
                                 drawn, drawn \o <<"\n">>) } })

\* Config.prepare_jwt_secret_key; drawn is what secrets.token_hex(32) returns if called.
prepare_jwt_secret_key(st, drawn) ==
    IF st.error # NoError \/ st.cfg.jwt_secret_key # None THEN st
    ELSE Get({ [st EXCEPT !.error = r.error,
                          !.cfg.jwt_secret_key =
                              IF r.error = NoError THEN Some(r.value) ELSE @,
                          !.files = r.files, !.dirs = r.dirs, !.io = r.io] :
               r \in { provision(st,
                                 abspath(os_name, join(os_name, Get(st.cfg.data_dir),
                                                       jwt_secret_key_name)),
                                 abspath(os_name, Get(st.cfg.data_dir)),
                                 drawn, drawn) } })

(***************************************************************************)
(* The database URL and the construction as a whole                        *)
(***************************************************************************)
DatabaseSchemeError ==
    "Unsupported database scheme. Supported databases are sqlite and postgresql."

\* Config.init_database_url
init_database_url(st) ==
    IF st.error # NoError THEN st
    ELSE IF st.cfg.database_url = None
    THEN [st EXCEPT !.cfg.database_url =
              Some(<<"s", "q", "l", "i", "t", "e", ":", "/", "/", "/">> \o Get(st.cfg.data_dir) \o <<"/", "d", "a", "t", "a", "b", "a", "s", "e", ".", "d", "b">>)]
    ELSE IF ~startswith(Get(st.cfg.database_url), <<"s", "q", "l", "i", "t", "e", ":", "/", "/">>)
            /\ ~startswith(Get(st.cfg.database_url), <<"p", "o", "s", "t", "g", "r", "e", "s", "q", "l", ":", "/", "/">>)
    THEN Raise(st, DatabaseSchemeError)
    ELSE st

\* Lines 119-120 of __init__.
default_system_reserved(st) ==
    IF st.error # NoError \/ st.cfg.system_reserved # None THEN st
    ELSE [st EXCEPT !.cfg.system_reserved = Some([ram |-> 2, vram |-> 1])]

\* Mutant of Config__init__: check_all runs after the body of __init__.
Config__init__validate_last(v, fs, ds, t, k) ==
    Get({ IF s6.error # NoError THEN s6 ELSE check_all(s6) :
          s6 \in { default_system_reserved(s5) :
          s5 \in { init_database_url(s4) :
          s4 \in { prepare_jwt_secret_key(s3, k) :
          s3 \in { prepare_token(s2, t) :
          s2 \in { check_worker_token(s1) :
          s1 \in { resolve_dirs(s0) :
          s0 \in { Started(v, fs, ds) } } } } } } } })

\* Config(**values) on the filesystem (fs, ds): super().__init__ assigns the
\* fields and runs check_all, then the body of __init__ runs line by line.
Config__init__(v, fs, ds, t, k) ==
    Get({ default_system_reserved(s6) :
          s6 \in { init_database_url(s5) :
          s5 \in { prepare_jwt_secret_key(s4, k) :
          s4 \in { prepare_token(s3, t) :
          s3 \in { check_worker_token(s2) :
          s2 \in { resolve_dirs(s1) :
          s1 \in { check_all(s0) :
          s0 \in { Started(v, fs, ds) } } } } } } } })

\* What the caller of Config(**values) is left with.
Outcome(st) ==
    [error |-> st.error,
     config |-> IF st.error = NoError THEN Some(st.cfg) ELSE None,
     io |-> st.io]

NotLoaded == [error |-> "not loaded", config |-> None, io |-> <<>>]

NotParsed == [error |-> "not parsed", value |-> None]

\* The directory a construction keeps its secret files in.
SecretDir(cfg) == abspath(os_name, Get(cfg.data_dir))

\* What secrets.token_hex(nbytes) may return to a construction given the explicit
\* value: with an explicit value it is never called and its result is immaterial.
Draws(explicit, nbytes) ==
    IF explicit = None THEN token_hex(nbytes)
    ELSE {CHOOSE d \in token_hex(nbytes) : TRUE}

\* One Config(**v): the filesystem takes whatever the construction did to it,
\* whether it returned or raised.
Load(v) ==
    \E t \in Draws(v.token, TokenBytes), k \in Draws(v.jwt_secret_key, KeyBytes) :
    \E st \in { Config__init__(v, files, dirs, t, k) } :
    \E fresh \in { /\ st.error = NoError
                   /\ v.token = None /\ v.jwt_secret_key = None
                   /\ ~exists(files, join(os_name, Get(st.cfg.data_dir), token_name))
                   /\ ~exists(files, join(os_name, Get(st.cfg.data_dir),
                                          jwt_secret_key_name))
                   /\ SecretDir(st.cfg) \notin DOMAIN first_secrets } :
        /\ values' = v
        /\ outcome' = Outcome(st)
        /\ files' = st.files
        /\ dirs' = st.dirs
        /\ first_secrets' =
              IF fresh
              THEN [d \in DOMAIN first_secrets \cup {SecretDir(st.cfg)} |->
                      IF d = SecretDir(st.cfg)
                      THEN [token |-> t, jwt_secret_key |-> k]
                      ELSE first_secrets[d]]
              ELSE first_secrets
        /\ UNCHANGED <<os_name, environ, vendor_types, resources, gpu_devices,
                       pc, local, handle>>

(***************************************************************************)
(* Sequential loads: secrets, role and database URL                        *)
(***************************************************************************)
Procs == {1, 2}

Idle == [p \in Procs |-> <<"idle", "idle">>]

NoLocal == [p \in Procs |-> [cfg |-> Defaults, drawn |-> [s \in {"token", "jwt_secret_key"} |-> None]]]

NoHandle == [p \in Procs |-> None]

\* Filesystems a first load may find: nothing; both secret files in the default
\* data_dir, the token padded with white space; an empty token file there; a
\* token file in the relative data_dir "d".
InitialFiles ==
    { EmptyDict,
      [q \in {<<"/", "v", "a", "r", "/", "l", "i", "b", "/", "g", "p", "u", "s", "t", "a", "c", "k", "/", "t", "o", "k", "e", "n">>, <<"/", "v", "a", "r", "/", "l", "i", "b", "/", "g", "p", "u", "s", "t", "a", "c", "k", "/", "j", "w", "t", "_", "s", "e", "c", "r", "e", "t", "_", "k", "e", "y">>} |->
          IF q = <<"/", "v", "a", "r", "/", "l", "i", "b", "/", "g", "p", "u", "s", "t", "a", "c", "k", "/", "t", "o", "k", "e", "n">> THEN <<" ", "t", "k", "\n">> ELSE <<"j", "k">>],
      [q \in {<<"/", "v", "a", "r", "/", "l", "i", "b", "/", "g", "p", "u", "s", "t", "a", "c", "k", "/", "t", "o", "k", "e", "n">>} |-> <<>>],
      [q \in {<<"/", "w", "/", "d", "/", "t", "o", "k", "e", "n">>} |-> <<"t", "k", "\n">>] }

\* The directories that hold the files of a filesystem.
RECURSIVE dirname(_)
dirname(path) ==
    IF path = <<>> \/ path[Len(path)] = "/" THEN rstrip_slash(path)
    ELSE dirname(SubSeq(path, 1, Len(path) - 1))

DirsOf(fs) == { dirname(q) : q \in DOMAIN fs }

\* Loads against the default data_dir, loads with an empty data_dir, and loads
\* with an empty server_url.
SecretInputs ==
    { [Defaults EXCEPT !.token = t, !.jwt_secret_key = j,
                       !.server_url = s, !.database_url = u] :
        t \in {None, Some(<<>>), Some(<<"s", "3">>)},
        j \in {None, Some(<<"j", "1">>)},
        s \in {None, Some(<<"h", "t", "t", "p", ":", "/", "/", "h", "/">>)},
        u \in {None, Some(<<"p", "o", "s", "t", "g", "r", "e", "s", "q", "l", ":", "/", "/", "x">>), Some(<<"m", "y", "s", "q", "l", ":", "/", "/", "x">>)} }
    \cup
    { [Defaults EXCEPT !.data_dir = Some(<<>>), !.token = t, !.jwt_secret_key = j] :
        t \in {None, Some(<<"s", "3">>)}, j \in {None, Some(<<"j", "1">>)} }
    \cup
    { [Defaults EXCEPT !.server_url = Some(<<>>), !.token = t] :
        t \in {None, Some(<<"s", "3">>)} }

InitWith(oses, envs, filesystems, maps) ==
    /\ os_name \in oses
    /\ environ \in envs
    /\ files \in filesystems
    /\ dirs = DirsOf(files)
    /\ vendor_types \in maps
    /\ values = Defaults
    /\ outcome = NotLoaded
    /\ resources = None
    /\ gpu_devices = NotParsed
    /\ first_secrets = EmptyDict
    /\ pc = Idle
    /\ local = NoLocal
    /\ handle = NoHandle

NoHygonType == CHOOSE m \in VendorTypeMaps : m["Hygon"] = None

Init == InitWith({"posix"}, {EmptyDict}, InitialFiles, {NoHygonType})

LoadSecrets == \E v \in SecretInputs : Load(v)

Next == LoadSecrets

Spec == Init /\ [][Next]_vars

(***************************************************************************)
(* Loads that exercise check_all against the body of __init__              *)
(***************************************************************************)
GoodEntry ==
    [name |-> Some("M1"), index |-> Some(0), vendor |-> Some("Apple"),
     memory |-> Some([total |-> Some(1024)]), type |-> None]

Block(entries) == Some([gpu_devices |-> Some(entries)])

ValidatedInputs ==
    { [Defaults EXCEPT !.token = t, !.jwt_secret_key = Some(<<"j", "1">>),
                       !.server_url = s, !.database_url = u,
                       !.ssl_keyfile = kf, !.ssl_certfile = cf, !.resources = r] :
        t \in {None, Some(<<"s", "3">>)},
        s \in {None, Some(<<"h", "t", "t", "p", ":", "/", "/", "h", "/">>), Some(<<"h", ":", "9">>)},
        u \in {None, Some(<<"m", "y", "s", "q", "l", ":", "/", "/", "x">>)},
        kf \in {None, Some(<<>>), Some(<<"k", ".", "p", "e", "m">>)},
        cf \in {None, Some(<<>>), Some(<<"c", ".", "p", "e", "m">>)},
        r \in {None, Block(<<GoodEntry>>),
               Block(<<[GoodEntry EXCEPT !.index = None]>>)} }
    \cup
    { [Defaults EXCEPT !.token = Some(<<"s", "3">>), !.jwt_secret_key = Some(<<"j", "1">>),
                       !.ollama_library_base_url = o, !.ssl_keyfile = kf] :
        o \in {None, Some(<<>>), Some(<<"h", ":", "9">>), Some(<<"h", "t", "t", "p", "s", ":", "/", "/", "o", "/">>)},
        kf \in {None, Some(<<"k", ".", "p", "e", "m">>)} }

InitValidated == InitWith({"posix"}, {EmptyDict}, {EmptyDict}, {NoHygonType})

LoadValidated == \E v \in ValidatedInputs : Load(v)

NextValidated == LoadValidated

SpecValidated == InitValidated /\ [][NextValidated]_vars

(***************************************************************************)
(* Loads that exercise the directories, on every platform                  *)
(***************************************************************************)
PathInputs ==
    { [Defaults EXCEPT !.token = Some(<<"s", "3">>), !.jwt_secret_key = Some(<<"j", "1">>),
                       !.data_dir = d, !.cache_dir = c, !.bin_dir = b,
                       !.log_dir = l, !.database_url = u] :
        d \in {None, Some(<<>>), Some(<<"d">>), Some(<<"d", "/">>), Some(<<"/", "d">>)},
        c \in {None, Some(<<"c">>), Some(<<"/", "c">>)},
        b \in {None, Some(<<"b">>)},
        l \in {None, Some(<<"/", "l">>)},
        u \in {None, Some(<<"p", "o", "s", "t", "g", "r", "e", "s", "q", "l", ":", "/", "/", "x">>)} }

Environments == {EmptyDict, [APPDATA |-> <<"C", ":", "\\", "A">>], [APPDATA |-> <<"A">>]}

InitPaths ==
    InitWith({"posix", "nt", "java"}, Environments, {EmptyDict}, {NoHygonType})

LoadPaths == \E v \in PathInputs : Load(v)

NextPaths == LoadPaths

SpecPaths == InitPaths /\ [][NextPaths]_vars

(***************************************************************************)
(* get_gpu_devices on resources blocks                                     *)
(***************************************************************************)
MaxDevices == 2

MemoryBlocks ==
    {None, Some(EmptyDict), Some([is_unified_memory |-> Some(TRUE)]),
     Some([total |-> Some(0)]),
     Some([total |-> Some(1024), is_unified_memory |-> Some(TRUE)])}

\* Every combination of absent, falsy, unknown and valid fields in one entry.
Entries ==
    [name : {None, Some(""), Some("M1")},
     index : {None, Some(0), Some(1)},
     vendor : {None, Some("Intel"), Some("Apple"), Some("Hygon")},
     memory : MemoryBlocks,
     type : {None, Some(""), Some("tpu"), Some("cuda")}]

\* Entries that pass unless the memory block or the type fails them, for the lists
\* of several devices.
ListedEntries ==
    [name : {Some("M1")},
     index : {Some(0), Some(1)},
     vendor : {Some("Apple"), Some("Hygon")},
     memory : {None, Some([total |-> Some(0)]),
               Some([total |-> Some(1024), is_unified_memory |-> Some(TRUE)])},
     type : {None, Some("tpu")}]

ResourceBlocks ==
    {None, Some(EmptyDict), Some([cpu |-> None]), Some([gpu_devices |-> None])}
    \cup { Block(<<e>>) : e \in Entries }
    \cup { Block(l) : l \in UNION { [1..n -> ListedEntries] : n \in 0..MaxDevices } }

\* An aggregate whose resources field holds one of the blocks, not parsed yet.
InitDevices ==
    /\ os_name = "posix"
    /\ environ = EmptyDict
    /\ files = EmptyDict
    /\ dirs = {}
    /\ vendor_types \in VendorTypeMaps
    /\ values = Defaults
    /\ outcome = NotLoaded
    /\ resources \in ResourceBlocks
    /\ gpu_devices = NotParsed
    /\ first_secrets = EmptyDict
    /\ pc = Idle
    /\ local = NoLocal
    /\ handle = NoHandle

\* cfg.get_gpu_devices() on that aggregate.
ParseDevices ==
    /\ gpu_devices' = get_gpu_devices(resources)
    /\ UNCHANGED <<os_name, environ, files, dirs, vendor_types, values, outcome,
                   resources, first_secrets, pc, local, handle>>

NextDevices == ParseDevices

SpecDevices == InitDevices /\ [][NextDevices]_vars

(***************************************************************************)
(* Properties of sequential loads                                          *)
(***************************************************************************)
Loaded == outcome.error # "not loaded"

Succeeded == outcome.error = NoError

Aggregate == Get(outcome.config)

NoExplicitSecrets == values.token = None /\ values.jwt_secret_key = None

TokenFile(cfg) == abspath(os_name, join(os_name, Get(cfg.data_dir), token_name))

KeyFile(cfg) == abspath(os_name, join(os_name, Get(cfg.data_dir), jwt_secret_key_name))

\* C1: once a load with no explicit token and no explicit jwt_secret_key has
\* provisioned a data_dir that held no secret files, every successful load with no
\* explicit secrets against that data_dir resolves exactly the token and key that
\* first load generated, and the two files hold what it wrote.
C1_IdempotentProvisioning ==
    (Succeeded /\ NoExplicitSecrets /\ SecretDir(Aggregate) \in DOMAIN first_secrets)
    => /\ Aggregate.token = Some(first_secrets[SecretDir(Aggregate)].token)
       /\ Aggregate.jwt_secret_key =
              Some(first_secrets[SecretDir(Aggregate)].jwt_secret_key)
       /\ files[TokenFile(Aggregate)] =
              first_secrets[SecretDir(Aggregate)].token \o <<"\n">>
       /\ files[KeyFile(Aggregate)] =
              first_secrets[SecretDir(Aggregate)].jwt_secret_key

\* A later load that read both secrets back from the files the first load wrote.
C1_Witness ==
    /\ Succeeded /\ NoExplicitSecrets
    /\ SecretDir(Aggregate) \in DOMAIN first_secrets
    /\ outcome.io = <<<<"exists", TokenFile(Aggregate)>>, <<"read", TokenFile(Aggregate)>>,
                      <<"exists", KeyFile(Aggregate)>>, <<"read", KeyFile(Aggregate)>>>>

WorkerWithoutToken == values.server_url # None /\ ~Truthy(values.token)

\* C2: a load with server_url set and no token fails, produces no aggregate and
\* performs no file operation (no exists, read, makedirs or write).
C2_WorkerNeverProvisions ==
    (Loaded /\ WorkerWithoutToken)
    => /\ ~Succeeded
       /\ outcome.config = None
       /\ outcome.io = <<>>

\* A worker load without a token that failed although the token file exists.
C2_Witness ==
    /\ Loaded /\ WorkerWithoutToken
    /\ outcome.error = WorkerTokenError
    /\ <<"/", "v", "a", "r", "/", "l", "i", "b", "/", "g", "p", "u", "s", "t", "a", "c", "k", "/", "t", "o", "k", "e", "n">> \in DOMAIN files

\* C4: a load that ends in an error leaves the files and directories as they
\* were before it and produces no aggregate.
C4_FailedLoadLeavesNoTrace ==
    [][(outcome'.error \notin {NoError, "not loaded"})
       => (files' = files /\ dirs' = dirs /\ outcome'.config = None)]_vars

IsNonEmpty(o) == o # None /\ Len(Get(o)) > 0

\* C5: the aggregate of a successful server-role load has a non-empty data_dir,
\* token, jwt_secret_key and database_url.
C5_ServerAggregateNonEmpty ==
    (Succeeded /\ values.server_url = None)
    => /\ IsNonEmpty(Aggregate.data_dir)
       /\ IsNonEmpty(Aggregate.token)
       /\ IsNonEmpty(Aggregate.jwt_secret_key)
       /\ IsNonEmpty(Aggregate.database_url)

\* C8: data_dir, cache_dir, bin_dir and log_dir of a constructed aggregate are
\* absolute paths.
C8_DirectoriesAbsolute ==
    Succeeded
    => \A d \in {Aggregate.data_dir, Aggregate.cache_dir,
                 Aggregate.bin_dir, Aggregate.log_dir} : isabs(os_name, Get(d))

(***************************************************************************)
(* Properties of the order of checks                                       *)
(***************************************************************************)
HasFile(o) == o # None /\ Len(Get(o)) > 0

OneTlsFileNonEmpty(c) == HasFile(c.ssl_keyfile) # HasFile(c.ssl_certfile)

OneTlsFileSet(c) == (c.ssl_keyfile # None) # (c.ssl_certfile # None)

BadServerUrl == values.server_url = Some(<<"h", ":", "9">>)

BadOllamaUrl == values.ollama_library_base_url = Some(<<"h", ":", "9">>)

BadResources == values.resources = Block(<<[GoodEntry EXCEPT !.index = None]>>)

BadDatabaseUrl == values.database_url = Some(<<"m", "y", "s", "q", "l", ":", "/", "/", "x">>)

C9_TlsPairSet ==
    Loaded
    => /\ OneTlsFileSet(values) => outcome.error = TlsPairError
       /\ ~OneTlsFileSet(values) => outcome.error # TlsPairError
       /\ Succeeded => ~OneTlsFileSet(Aggregate)

\* C9, amended: with "set" read as "a non-empty string", a load with exactly one of
\* ssl_keyfile and ssl_certfile set fails with the TLS-pair error, a load with both
\* or neither set does not, and no aggregate has exactly one of them set.
C9_TlsPairNonEmpty ==
    Loaded
    => /\ OneTlsFileNonEmpty(values) => outcome.error = TlsPairError
       /\ ~OneTlsFileNonEmpty(values) => outcome.error # TlsPairError
       /\ Succeeded => ~OneTlsFileNonEmpty(Aggregate)

\* A load with only ssl_keyfile given, rejected with the TLS-pair error.
C9_Witness ==
    /\ Loaded
    /\ /\ values.ssl_keyfile = Some(<<"k", ".", "p", "e", "m">>) /\ values.ssl_certfile = None
          /\ outcome.error = TlsPairError

(***************************************************************************)
(* Properties of get_gpu_devices                                           *)
(***************************************************************************)
Parsed == gpu_devices.error # "not parsed"

HasDeviceList ==
    /\ resources # None
    /\ "gpu_devices" \in DOMAIN Get(resources)
    /\ Get(resources).gpu_devices # None
    /\ Get(Get(resources).gpu_devices) # <<>>

DeviceList == Get(Get(resources).gpu_devices)

\* Whether entry e breaks the rule named check.
Breaks(e, check) ==
    CASE check = "name" -> e.name \in {None, Some("")}
      [] check = "index" -> e.index = None
      [] check = "vendor" -> e.vendor = None \/ Get(e.vendor) \notin VendorEnum
      [] check = "type" ->
            IF e.type \notin {None, Some("")}
            THEN Get(e.type) \notin DeviceTypeEnum
            ELSE \/ device_type_from_vendor(e.vendor) = None
                 \/ Get(device_type_from_vendor(e.vendor)) \notin DeviceTypeEnum
      [] check = "memory" -> e.memory = None \/ DOMAIN Get(e.memory) = {}
      [] check = "total" ->
            \/ e.memory = None
            \/ "total" \notin DOMAIN Get(e.memory)
            \/ Get(e.memory).total = None

ErrorOf(check) ==
    CASE check = "name" -> "GPU device name is required"
      [] check = "index" -> "GPU device index is required"
      [] check = "vendor" -> "Unsupported GPU device vendor"
      [] check = "type" -> "Unsupported GPU type"
      [] check = "memory" -> "GPU device memory is required"
      [] check = "total" -> "GPU device memory total is required"

Checks == {"name", "index", "vendor", "type", "memory", "total"}

Passes(e) == \A c \in Checks : ~Breaks(e, c)

\* The error of the first rule, in the given order, that entry e breaks.
FirstBroken(e, order) ==
    ErrorOf(order[CHOOSE i \in 1..Len(order) :
                      /\ Breaks(e, order[i])
                      /\ \A j \in 1..(i - 1) : ~Breaks(e, order[j])])

\* The call raises the error that the first failing entry gives under the order
\* of checks, and returns normally when every entry passes.
RaisesInOrder(order) ==
    (Parsed /\ HasDeviceList)
    => IF \A i \in 1..Len(DeviceList) : Passes(DeviceList[i])
       THEN gpu_devices.error = NoError
       ELSE LET i == CHOOSE i \in 1..Len(DeviceList) :
                        /\ ~Passes(DeviceList[i])
                        /\ \A j \in 1..(i - 1) : Passes(DeviceList[j])
            IN  gpu_devices.error = FirstBroken(DeviceList[i], order)

\* C6 as stated: each entry is checked in the order name, index, vendor, device
\* type, memory block, memory total, and the first rule broken gives the error.
C6_TypeBeforeMemory ==
    RaisesInOrder(<<"name", "index", "vendor", "type", "memory", "total">>)

\* C6, amended: each entry is checked in the order name, index, vendor, memory
\* block, device type, memory total, and the first rule broken gives the error.
C6_MemoryBeforeType ==
    RaisesInOrder(<<"name", "index", "vendor", "memory", "type", "total">>)

\* An entry with an unknown explicit type and no memory block, rejected for the
\* missing memory block.
C6_Witness ==
    /\ Parsed /\ HasDeviceList
    /\ \E i \in 1..Len(DeviceList) :
          /\ \A j \in 1..(i - 1) : Passes(DeviceList[j])
          /\ ~Breaks(DeviceList[i], "name") /\ ~Breaks(DeviceList[i], "index")
          /\ ~Breaks(DeviceList[i], "vendor")
          /\ DeviceList[i].type = Some("tpu")
          /\ DeviceList[i].memory = None
    /\ gpu_devices.error = "GPU device memory is required"

\* What the claim asks of every entry of the list.
Described(e) ==
    /\ ~Breaks(e, "name") /\ ~Breaks(e, "index") /\ ~Breaks(e, "vendor")
    /\ ~Breaks(e, "total")

\* Descriptor d carries the fields of entry e, the flag false when e leaves it out.
Describes(d, e) ==
    /\ d.name = Get(e.name)
    /\ d.index = Get(e.index)
    /\ d.vendor = Get(e.vendor)
    /\ d.memory.total = Get(Get(e.memory).total)
    /\ d.memory.is_unified_memory =
          IF "is_unified_memory" \in DOMAIN Get(e.memory)
          THEN Get(e.memory).is_unified_memory
          ELSE Some(FALSE)

OnePerEntry ==
    /\ gpu_devices.error = NoError
    /\ gpu_devices.value # None
    /\ Len(Get(gpu_devices.value)) = Len(DeviceList)
    /\ \A i \in 1..Len(DeviceList) : Describes(Get(gpu_devices.value)[i], DeviceList[i])

\* C7 as stated: a list whose entries all carry a non-empty name, an index, a
\* vendor of the enumeration and a memory block with a total yields one descriptor
\* per entry, in input order, duplicates and zeros kept.
C7_OnePerEntry ==
    (Parsed /\ HasDeviceList /\ \A i \in 1..Len(DeviceList) : Described(DeviceList[i]))
    => OnePerEntry

\* C7, amended: the same, for lists whose entries also have a device type of the
\* type enumeration, given explicitly or derived from the vendor.
C7_OnePerTypedEntry ==
    (Parsed /\ HasDeviceList
        /\ \A i \in 1..Len(DeviceList) :
              Described(DeviceList[i]) /\ ~Breaks(DeviceList[i], "type"))
    => /\ OnePerEntry
       /\ \A i \in 1..Len(DeviceList) :
             Get(gpu_devices.value)[i].type =
                 IF DeviceList[i].type \notin {None, Some("")}
                 THEN Get(DeviceList[i].type)
                 ELSE Get(device_type_from_vendor(DeviceList[i].vendor))

\* Two devices that share index 0, with memory total 0, both described.
C7_Witness ==
    /\ Parsed /\ HasDeviceList
    /\ Len(DeviceList) = 2
    /\ gpu_devices.error = NoError
    /\ Len(Get(gpu_devices.value)) = 2
    /\ \A i \in 1..2 : /\ Get(gpu_devices.value)[i].index = 0
                       /\ Get(gpu_devices.value)[i].memory.total = 0
                       /\ Get(gpu_devices.value)[i].type = "mps"
                       /\ Get(gpu_devices.value)[i].memory.is_unified_memory = Some(FALSE)

(***************************************************************************)
(* Two processes constructing Config() at once on one data_dir             *)
(***************************************************************************)
Secrets == {"token", "jwt_secret_key"}

SecretName(s) == IF s = "token" THEN token_name ELSE jwt_secret_key_name

SecretBytes(s) == IF s = "token" THEN TokenBytes ELSE KeyBytes

\* What is written for a drawn value: the token with a newline, the key bare.
SecretContent(s, drawn) == IF s = "token" THEN drawn \o <<"\n">> ELSE drawn

SecretPath(p, s) ==
    abspath(os_name, join(os_name, Get(local[p].cfg.data_dir), SecretName(s)))

\* A write of new at offset 0 of a file that holds old.
Overlay(old, new) == new \o SubSeq(old, Len(new) + 1, Len(old))

At(p, s, step) == pc[p] = <<s, step>>

Goto(p, s, step) == pc' = [pc EXCEPT ![p] = <<s, step>>]

AfterSecret(p, s) ==
    IF s = "token" THEN Goto(p, "jwt_secret_key", "check") ELSE Goto(p, "finish", "finish")

RaceFrame == UNCHANGED <<os_name, environ, vendor_types, values, outcome, resources,
                         gpu_devices, first_secrets>>

\* super().__init__ and lines 98-111, for Config() with no arguments.
RaceStart(p) ==
    /\ At(p, "idle", "idle")
    /\ \E st \in { check_worker_token(resolve_dirs(check_all(
                       Started(Defaults, files, dirs)))) } :
          /\ st.error = NoError
          /\ local' = [local EXCEPT ![p].cfg = st.cfg]
    /\ Goto(p, "token", "check")
    /\ UNCHANGED <<files, dirs, handle>>
    /\ RaceFrame

\* "if self.<secret> is not None: return" and "if os.path.exists(path)".
SecretCheck(p, s) ==
    /\ At(p, s, "check")
    /\ IF SecretPath(p, s) \in DOMAIN files
       THEN Goto(p, s, "read") ELSE Goto(p, s, "generate")
    /\ UNCHANGED <<files, dirs, local, handle>>
    /\ RaceFrame

\* "with open(path, 'r') as file: value = file.read().strip()", then the assignment.
SecretRead(p, s) ==
    /\ At(p, s, "read")
    /\ local' = [local EXCEPT ![p].cfg[s] = Some(strip(read_file(files, SecretPath(p, s))))]
    /\ AfterSecret(p, s)
    /\ UNCHANGED <<files, dirs, handle>>
    /\ RaceFrame

\* "value = secrets.token_hex(n)"
SecretGenerate(p, s) ==
    /\ At(p, s, "generate")
    /\ \E drawn \in token_hex(SecretBytes(s)) :
          local' = [local EXCEPT ![p].drawn[s] = Some(drawn)]
    /\ Goto(p, s, "makedirs")
    /\ UNCHANGED <<files, dirs, handle>>
    /\ RaceFrame

\* "os.makedirs(self.data_dir, exist_ok=True)"
SecretMakedirs(p, s) ==
    /\ At(p, s, "makedirs")
    /\ dirs' = dirs \cup {abspath(os_name, Get(local[p].cfg.data_dir))}
    /\ Goto(p, s, "open")
    /\ UNCHANGED <<files, local, handle>>
    /\ RaceFrame

\* "open(path, 'w')": the file is created, or truncated if it exists.
SecretOpen(p, s) ==
    /\ At(p, s, "open")
    /\ files' = write_file(files, SecretPath(p, s), <<>>)
    /\ handle' = [handle EXCEPT ![p] = Some(SecretPath(p, s))]
    /\ Goto(p, s, "write")
    /\ UNCHANGED <<dirs, local>>
    /\ RaceFrame

\* "file.write(...)" flushed when the with block closes the file, then the assignment.
SecretWrite(p, s) ==
    /\ At(p, s, "write")
    /\ files' = write_file(files, Get(handle[p]),
                           Overlay(files[Get(handle[p])],
                                   SecretContent(s, Get(local[p].drawn[s]))))
    /\ handle' = [handle EXCEPT ![p] = None]
    /\ local' = [local EXCEPT ![p].cfg[s] = local[p].drawn[s]]
    /\ AfterSecret(p, s)
    /\ UNCHANGED dirs
    /\ RaceFrame

\* Lines 117-120: init_database_url and the system_reserved default.
RaceFinish(p) ==
    /\ At(p, "finish", "finish")
    /\ \E st \in { default_system_reserved(init_database_url(
                       Started(local[p].cfg, files, dirs))) } :
          /\ st.error = NoError
          /\ local' = [local EXCEPT ![p].cfg = st.cfg]
    /\ Goto(p, "done", "done")
    /\ UNCHANGED <<files, dirs, handle>>
    /\ RaceFrame

InitRace ==
    InitWith({"posix"}, {EmptyDict}, {EmptyDict}, {NoHygonType})

NextRace ==
    \E p \in Procs :
        \/ RaceStart(p)
        \/ \E s \in Secrets :
              \/ SecretCheck(p, s)
              \/ SecretRead(p, s)
              \/ SecretGenerate(p, s)
              \/ SecretMakedirs(p, s)
              \/ SecretOpen(p, s)
              \/ SecretWrite(p, s)
        \/ RaceFinish(p)

SpecRace == InitRace /\ [][NextRace]_vars

AllDone == \A p \in Procs : pc[p] = <<"done", "done">>

Held(p, s) == Get(local[p].cfg[s])

FinalSecret(s) == strip(files[SecretPath(1, s)])

\* C10 as stated: both processes end with the same non-empty secret, the trimmed
\* final content of the secret file.
C10_SameSecret ==
    AllDone
    => \A s \in Secrets : \A p \in Procs :
          Held(p, s) # <<>> /\ Held(p, s) = FinalSecret(s)

====
